---------------------------- MODULE Spec2Model ----------------------------
(***************************************************************************)
(* Model of scripts/generate_golden.py: main() loads the xlm-roberta-base  *)
(* tokenizer, tokenizes the eleven fixed test strings, writes the records  *)
(* as indented JSON to testdata/tokenizer_golden.json and prints a count.  *)
(*                                                                         *)
(* Text is modelled as sequences of Unicode code points, file content as   *)
(* sequences of bytes.  The tokenizer is an external library: its calls    *)
(* are nondeterministic choices over results of the shape its interface    *)
(* returns, or a raised exception.                                         *)
(***************************************************************************)
EXTENDS Integers, Sequences, FiniteSets, TLC

(***************************************************************************)
(* Bounds of the model.                                                    *)
(***************************************************************************)
\* most tokens the tokenizer returns over one run
MaxTotalTokens == 1
\* size of the modelled vocabulary (token ids 1..NumIds)
NumIds == 2

(***************************************************************************)
(* The fixed corpus, lines 10-22, as the source file holds it.             *)
(***************************************************************************)
test_cases ==
  << <<72, 101, 108, 108, 111>>,                                \* "Hello"
     <<72, 101, 108, 108, 111, 32, 119, 111, 114, 108, 100>>,   \* "Hello world"
     <<72, 101, 108, 108, 111, 32, 119, 111, 114, 108, 100, 46>>,
     <<73, 32, 119, 97, 110, 116, 32, 116, 111>>,               \* "I want to"
     <<84, 104, 97, 110, 107, 32, 121, 111, 117, 32, 118, 101, 114, 121,
       32, 109, 117, 99, 104, 46>>,                    \* "Thank you very much."
     <<84, 104, 105, 115, 32, 105, 115, 32, 97, 32, 116, 101, 115, 116,
       32, 115, 101, 110, 116, 101, 110, 99, 101, 46>>,
     <<84, 104, 101, 32, 113, 117, 105, 99, 107, 32, 98, 114, 111, 119,
       110, 32, 102, 111, 120, 32, 106, 117, 109, 112, 115, 32, 111, 118,
       101, 114, 32, 116, 104, 101, 32, 108, 97, 122, 121, 32, 100, 111,
       103, 46>>,
     <<>>,                                                      \* ""
     <<99, 97, 102, 195, 169>>,                                 \* line 19
     <<228, 189, 160, 229, 165, 189, 228, 184, 8211, 231, 8226, 338>>,
     <<240, 376, 381, 8240>> >>                                 \* line 21

(***************************************************************************)
(* Sequence helpers.                                                       *)
(***************************************************************************)
RECURSIVE Flatten(_)
\* the concatenation of a sequence of sequences (halving keeps the
\* recursion shallow)
Flatten(ss) ==
  IF ss = <<>> THEN <<>>
  ELSE IF Len(ss) = 1 THEN ss[1]
  ELSE LET h == Len(ss) \div 2
       IN  Flatten(SubSeq(ss, 1, h)) \o Flatten(SubSeq(ss, h + 1, Len(ss)))

\* n space characters
Spaces(n) == [k \in 1..n |-> 32]

RECURSIVE Digits(_)
\* the decimal digits of a natural number, as characters
Digits(n) ==
  IF n < 10 THEN <<48 + n>> ELSE Digits(n \div 10) \o <<48 + (n % 10)>>

\* str(n) of an int, as json's _intstr (int.__repr__) and the f-string give it
IntStr(n) == IF n < 0 THEN <<45>> \o Digits(0 - n) ELSE Digits(n)

(***************************************************************************)
(* json.dump(results, f, indent=2, ensure_ascii=False), line 35: the       *)
(* chunks json's iterencode yields, each handed to f.write in turn.        *)
(***************************************************************************)
\* a hexadecimal digit, lower case
HexDigit(d) == IF d < 10 THEN 48 + d ELSE 87 + d

\* json.encoder.ESCAPE_DCT: the replacement of one character of a string
\* under ensure_ascii=False; everything from U+0020 up except the quote and
\* the backslash is emitted as it is
EscapeChar(c) ==
  CASE c = 92 -> <<92, 92>>
    [] c = 34 -> <<92, 34>>
    [] c = 8  -> <<92, 98>>
    [] c = 12 -> <<92, 102>>
    [] c = 10 -> <<92, 110>>
    [] c = 13 -> <<92, 114>>
    [] c = 9  -> <<92, 116>>
    [] c < 32 /\ c \notin {8, 9, 10, 12, 13}
         -> <<92, 117, 48, 48, HexDigit(c \div 16), HexDigit(c % 16)>>
    [] OTHER  -> <<c>>

\* every character of a string replaced
EscapeAll(s) == Flatten([k \in 1..Len(s) |-> EscapeChar(s[k])])

\* json.encoder.py_encode_basestring: a string between double quotes
EncodeBasestring(s) == <<34>> \o EscapeAll(s) \o <<34>>

\* newline_indent of nesting level `level` under indent=2
NewlineIndent(level) == <<10>> \o Spaces(2 * level)

\* _iterencode_list for a list of ints at nesting level `level`
IntListChunks(lst, level) ==
  IF lst = <<>> THEN << <<91, 93>> >>
  ELSE [k \in 1..Len(lst) |->
          (IF k = 1 THEN <<91>> ELSE <<44>>) \o NewlineIndent(level + 1)
            \o IntStr(lst[k])]
       \o << NewlineIndent(level), <<93>> >>

\* _iterencode_list for a list of strings at nesting level `level`
StrListChunks(lst, level) ==
  IF lst = <<>> THEN << <<91, 93>> >>
  ELSE [k \in 1..Len(lst) |->
          (IF k = 1 THEN <<91>> ELSE <<44>>) \o NewlineIndent(level + 1)
            \o EncodeBasestring(lst[k])]
       \o << NewlineIndent(level), <<93>> >>

\* _iterencode_list for a list of (start, end) pairs: each pair is itself a
\* list of ints one level deeper, preceded by a chunk holding the separator
PairListChunks(lst, level) ==
  IF lst = <<>> THEN << <<91, 93>> >>
  ELSE Flatten([k \in 1..Len(lst) |->
          << (IF k = 1 THEN <<91>> ELSE <<44>>) \o NewlineIndent(level + 1) >>
            \o IntListChunks(lst[k], level + 1)])
       \o << NewlineIndent(level), <<93>> >>

\* the dict keys of lines 28-31
KeyInput == <<105, 110, 112, 117, 116>>
KeyTokenIds == <<116, 111, 107, 101, 110, 95, 105, 100, 115>>
KeyOffsets == <<111, 102, 102, 115, 101, 116, 115>>
KeyTokens == <<116, 111, 107, 101, 110, 115>>

\* _iterencode_dict for one record at nesting level `level`: the keys in the
\* order the dict literal of lines 27-32 inserts them
RecordChunks(rec, level) ==
  LET sep == <<44>> \o NewlineIndent(level + 1)
      colon == <<58, 32>>
  IN  << <<123>>, NewlineIndent(level + 1) >>
      \o << EncodeBasestring(KeyInput), colon, EncodeBasestring(rec.input) >>
      \o << sep, EncodeBasestring(KeyTokenIds), colon >>
      \o IntListChunks(rec.token_ids, level + 1)
      \o << sep, EncodeBasestring(KeyOffsets), colon >>
      \o PairListChunks(rec.offsets, level + 1)
      \o << sep, EncodeBasestring(KeyTokens), colon >>
      \o StrListChunks(rec.tokens, level + 1)
      \o << NewlineIndent(level), <<125>> >>

\* _iterencode_list for the top-level list of records
JsonChunks(rs) ==
  IF rs = <<>> THEN << <<91, 93>> >>
  ELSE Flatten([k \in 1..Len(rs) |->
          << (IF k = 1 THEN <<91>> ELSE <<44>>) \o NewlineIndent(1) >>
            \o RecordChunks(rs[k], 1)])
       \o << NewlineIndent(0), <<93>> >>


(***************************************************************************)
(* The text layer of open(path, "w"), line 34: no encoding= and no         *)
(* newline= are passed, so the file object encodes with the environment's  *)
(* default text encoding (errors="strict") and writes "\n" as the          *)
(* platform's line separator.                                              *)
(***************************************************************************)
\* the default text encodings modelled: what the locale (or UTF-8 mode)
\* in force when open() is called selects
DefaultEncodings == { "utf-8", "cp1252" }

\* os.linesep of the platforms modelled: "\n" and "\r\n"
LineSeparators == { <<10>>, <<13, 10>> }

\* the UTF-8 encoding of one code point (no surrogates occur in the model)
Utf8(c) ==
  IF c < 128 THEN <<c>>
  ELSE IF c < 2048 THEN <<192 + (c \div 64), 128 + (c % 64)>>
  ELSE IF c < 65536
    THEN <<224 + (c \div 4096), 128 + ((c \div 64) % 64), 128 + (c % 64)>>
  ELSE <<240 + (c \div 262144), 128 + ((c \div 4096) % 64),
         128 + ((c \div 64) % 64), 128 + (c % 64)>>

\* the code points cp1252 maps to the bytes 0x80..0x9F, with their bytes
Cp1252High ==
  { <<8364, 128>>, <<8218, 130>>, <<402, 131>>, <<8222, 132>>, <<8230, 133>>,
    <<8224, 134>>, <<8225, 135>>, <<710, 136>>, <<8240, 137>>, <<352, 138>>,
    <<8249, 139>>, <<338, 140>>, <<381, 142>>, <<8216, 145>>, <<8217, 146>>,
    <<8220, 147>>, <<8221, 148>>, <<8226, 149>>, <<8211, 150>>, <<8212, 151>>,
    <<732, 152>>, <<8482, 153>>, <<353, 154>>, <<8250, 155>>, <<339, 156>>,
    <<382, 158>>, <<376, 159>> }

\* whether the codec has a byte sequence for the code point
CanEncode(encoding, c) ==
  CASE encoding = "utf-8"  -> TRUE
    [] encoding = "cp1252" ->
         c < 128 \/ (160 <= c /\ c <= 255) \/ (\E p \in Cp1252High : p[1] = c)

\* the bytes of one code point under the codec (defined where CanEncode holds)
EncodeChar(encoding, c) ==
  CASE encoding = "utf-8"  -> Utf8(c)
    [] encoding = "cp1252" ->
         IF c < 128 \/ (160 <= c /\ c <= 255) THEN <<c>>
         ELSE <<(CHOOSE p \in Cp1252High : p[1] = c)[2]>>

\* whether str.encode(encoding) of the text succeeds
Encodable(encoding, s) == \A k \in 1..Len(s) : CanEncode(encoding, s[k])

\* the newline translation of a text file written with newline=None
TranslateNewlines(linesep, s) ==
  Flatten([k \in 1..Len(s) |-> IF s[k] = 10 THEN linesep ELSE <<s[k]>>])

\* str.encode(encoding) of an encodable text
EncodeStr(encoding, s) ==
  Flatten([k \in 1..Len(s) |-> EncodeChar(encoding, s[k])])

\* the bytes f.write(s) adds to the file object's buffer: the text with its
\* newlines translated, then encoded
WriteBytes(encoding, sep, s) ==
  CHOOSE b \in { EncodeStr(encoding, t) :
                   t \in {TranslateNewlines(sep, s)} } : TRUE

\* how many leading chunks f.write accepts before one raises
\* UnicodeEncodeError (all of them when none does)
WritableChunks(encoding, chunks) ==
  LET bad == { k \in 1..Len(chunks) : ~Encodable(encoding, chunks[k]) }
  IN  IF bad = {} THEN Len(chunks)
      ELSE (CHOOSE k \in bad : \A j \in bad : k <= j) - 1

\* what the writes of the first n chunks leave in the file object's buffer
WrittenBytes(encoding, sep, chunks, n) ==
  Flatten([k \in 1..n |-> WriteBytes(encoding, sep, chunks[k])])


(***************************************************************************)
(* The external tokenizer (transformers.AutoTokenizer, "xlm-roberta-base").*)
(* Its code is not part of the repository; only the shape of what its      *)
(* calls return is modelled: the encode call returns token ids and offsets *)
(* as parallel sequences, the id-to-token call one string per id.          *)
(***************************************************************************)
\* the token ids of the modelled vocabulary
Ids == 1..NumIds

\* stand-ins for the vocabulary's entries: odd ids start with U+2581 (the
\* word-boundary mark), which cp1252 cannot encode, even ids with a double
\* quote, which JSON escapes
Vocab(id) == (IF id % 2 = 1 THEN <<9601>> ELSE <<34>>) \o IntStr(id)

\* a stand-in for the (start, end) pairs the tokenizer reports for a text;
\* the script stores them as they come and never looks into them
OffsetPairs(text) == { <<0, Len(text)>> }

\* what tok(text, return_offsets_mapping=True, add_special_tokens=False) may
\* return when at most `room` tokens are left of the run's bound
Encodings(text, room) ==
  UNION { { [input_ids |-> ids, offset_mapping |-> offs] :
              ids \in [1..n -> Ids], offs \in [1..n -> OffsetPairs(text)] }
          : n \in 0..room }

\* tok.convert_ids_to_tokens(ids) for a list of ids: one token string per id
ConvertIdsToTokens(ids) == [k \in 1..Len(ids) |-> Vocab(ids[k])]

(***************************************************************************)
(* The state of one run of main(), of the file system and of the console.  *)
(***************************************************************************)
VARIABLES
  pc,         \* where main() is: load, tokenize, open, dump, close, print,
              \* done, failed
  raising,    \* whether an exception is propagating through the with block
  idx,        \* position in test_cases of the text the loop takes next
  results,    \* the list of line 24
  fs,         \* the destination: whether testdata/ exists, whether the file
              \* exists, and the file's bytes
  f,          \* the file object of line 34: open, encoding, buffered bytes
  linesep,    \* os.linesep of the platform the script runs on
  stdout,     \* the lines printed
  exit,       \* <<>> while running, <<status>> once the process has ended
  tokenizer,  \* what tok(...) has answered so far, by position in
              \* test_cases (the same tokenizer answers the same again)
  failedAt,   \* the step whose exception ended the run
  loadCalls,  \* calls of from_pretrained in this run
  encodeLog,  \* the texts passed to tok(...) in this run, in call order
  openCalls,  \* calls of open in this run
  fs0,        \* the destination as this run found it
  run,        \* 1 in the first run, 2 in a second one
  prevOutput  \* <<bytes>> the previous run left in the file if it completed

vars == <<pc, raising, idx, results, fs, f, linesep, stdout, exit, tokenizer,
          failedAt, loadCalls, encodeLog, openCalls, fs0, run, prevOutput>>

\* file contents a previous run or anything else may have left behind
OldContents == { <<111, 108, 100, 10>> }

\* the states of the destination before a run
InitialFs ==
  { [dir |-> FALSE, exists |-> FALSE, bytes |-> <<>>],
    [dir |-> TRUE,  exists |-> FALSE, bytes |-> <<>>] }
  \cup { [dir |-> TRUE, exists |-> TRUE, bytes |-> b] : b \in OldContents }

ClosedFile == [open |-> FALSE, encoding |-> "", pending |-> <<>>]

Init ==
  /\ pc = "load"
  /\ raising = FALSE
  /\ idx = 1
  /\ results = <<>>
  /\ fs \in InitialFs
  /\ f = ClosedFile
  /\ linesep \in LineSeparators
  /\ stdout = <<>>
  /\ exit = <<>>
  /\ tokenizer = <<>>
  /\ failedAt = "none"
  /\ loadCalls = 0
  /\ encodeLog = <<>>
  /\ openCalls = 0
  /\ fs0 = fs
  /\ run = 1
  /\ prevOutput = <<>>

\* an exception nothing catches: the traceback goes to stderr and the
\* interpreter exits with status 1
Abort(step) ==
  /\ pc' = "failed"
  /\ failedAt' = step
  /\ exit' = <<1>>

\* tokens already held by results
TokensSoFar(rs) == Len(Flatten([k \in 1..Len(rs) |-> rs[k].token_ids]))

\* faulty variant: the load failure is caught and the script returns, so
\* the interpreter exits with status 0
LoadTokenizerCaught ==
  /\ pc = "load"
  /\ loadCalls' = loadCalls + 1
  /\ \/ /\ pc' = "tokenize"
        /\ UNCHANGED <<failedAt, exit>>
     \/ /\ pc' = "failed"
        /\ failedAt' = "load"
        /\ exit' = <<0>>
  /\ UNCHANGED <<raising, idx, results, fs, f, stdout, tokenizer, encodeLog,
                 openCalls, fs0, linesep, run, prevOutput>>

\* line 8: tok = AutoTokenizer.from_pretrained("xlm-roberta-base")
LoadTokenizer ==
  /\ pc = "load"
  /\ loadCalls' = loadCalls + 1
  /\ \/ /\ pc' = "tokenize"
        /\ UNCHANGED <<failedAt, exit>>
     \/ Abort("load")
  /\ UNCHANGED <<raising, idx, results, fs, f, stdout, tokenizer, encodeLog,
                 openCalls, fs0, linesep, run, prevOutput>>

\* faulty variant: the first offset pair is dropped
RecordDropFirstOffset(text, enc, tokens) ==
  [input |-> text,
   token_ids |-> enc.input_ids,
   offsets |-> IF enc.offset_mapping = <<>> THEN <<>>
               ELSE Tail(enc.offset_mapping),
   tokens |-> tokens]

\* lines 27-32: the record appended for one text
Record(text, enc, tokens) ==
  [input |-> text,
   token_ids |-> enc.input_ids,
   offsets |-> enc.offset_mapping,
   tokens |-> tokens]

\* faulty variant: the loop stops one text short
LoopNextOffByOne(i) ==
  IF i >= Len(test_cases) - 1 THEN "open" ELSE "tokenize"

\* line 25: the for loop goes on to the next text, or ends after the last
LoopNext(i) == IF i = Len(test_cases) THEN "open" ELSE "tokenize"

\* lines 25-32: one iteration of the loop over test_cases
TokenizeCase ==
  /\ pc = "tokenize"
  /\ idx <= Len(test_cases)
  /\ LET text == test_cases[idx] IN
     /\ encodeLog' = Append(encodeLog, text)
     /\ \/ \* tok(...) raises
           /\ Abort("tokenize")
           /\ UNCHANGED <<idx, results, tokenizer>>
        \/ \E enc \in (IF idx \in DOMAIN tokenizer
                         THEN {tokenizer[idx]}
                         ELSE Encodings(text,
                                        MaxTotalTokens - TokensSoFar(results))) :
             /\ tokenizer' = IF idx \in DOMAIN tokenizer THEN tokenizer
                             ELSE Append(tokenizer, enc)
             /\ \/ \* convert_ids_to_tokens raises
                   /\ Abort("tokenize")
                   /\ UNCHANGED <<idx, results>>
                \/ /\ results' = Append(results,
                                    Record(text, enc,
                                           ConvertIdsToTokens(enc.input_ids)))
                   /\ idx' = idx + 1
                   /\ pc' = LoopNext(idx)
                   /\ UNCHANGED <<failedAt, exit>>
  /\ UNCHANGED <<raising, fs, f, stdout, loadCalls, openCalls, fs0, linesep, run,
                 prevOutput>>

\* faulty variant: the file is opened in mode "a", which keeps its content
OpenFileAppend ==
  /\ pc = "open"
  /\ openCalls' = openCalls + 1
  /\ \/ /\ ~fs.dir
        /\ Abort("open")
        /\ UNCHANGED <<fs, f>>
     \/ /\ fs.dir
        /\ \E encoding \in DefaultEncodings :
             f' = [open |-> TRUE, encoding |-> encoding, pending |-> <<>>]
        /\ fs' = [fs EXCEPT !.exists = TRUE]
        /\ pc' = "dump"
        /\ UNCHANGED <<failedAt, exit>>
  /\ UNCHANGED <<raising, idx, results, stdout, tokenizer, loadCalls,
                 encodeLog, fs0, linesep, run, prevOutput>>

\* faulty variant: the directory is created when it is missing
OpenFileMakeDirs ==
  /\ pc = "open"
  /\ openCalls' = openCalls + 1
  /\ \E encoding \in DefaultEncodings :
       f' = [open |-> TRUE, encoding |-> encoding, pending |-> <<>>]
  /\ fs' = [dir |-> TRUE, exists |-> TRUE, bytes |-> <<>>]
  /\ pc' = "dump"
  /\ UNCHANGED <<failedAt, exit>>
  /\ UNCHANGED <<raising, idx, results, stdout, tokenizer, loadCalls,
                 encodeLog, fs0, linesep, run, prevOutput>>

\* line 34: open("testdata/tokenizer_golden.json", "w")
OpenFile ==
  /\ pc = "open"
  /\ openCalls' = openCalls + 1
  /\ \/ /\ ~fs.dir                       \* FileNotFoundError
        /\ Abort("open")
        /\ UNCHANGED <<fs, f>>
     \/ /\ fs.dir
        /\ \E encoding \in DefaultEncodings :
             f' = [open |-> TRUE, encoding |-> encoding, pending |-> <<>>]
        /\ fs' = [fs EXCEPT !.exists = TRUE, !.bytes = <<>>]
        /\ pc' = "dump"
        /\ UNCHANGED <<failedAt, exit>>
  /\ UNCHANGED <<raising, idx, results, stdout, tokenizer, loadCalls,
                 encodeLog, fs0, linesep, run, prevOutput>>

\* faulty variant: an encoding error of a write is caught and ignored
DumpJsonSwallow ==
  /\ pc = "dump"
  /\ \E chunks \in {JsonChunks(results)} :
       \E n \in {WritableChunks(f.encoding, chunks)} :
         f' = [f EXCEPT !.pending =
                 @ \o WrittenBytes(f.encoding, linesep, chunks, n)]
  /\ pc' = "close"
  /\ UNCHANGED <<raising, idx, results, fs, stdout, exit, tokenizer, failedAt,
                 loadCalls, encodeLog, openCalls, fs0, linesep, run, prevOutput>>

\* line 35: json.dump(results, f, indent=2, ensure_ascii=False)
DumpJson ==
  /\ pc = "dump"
  /\ \E chunks \in {JsonChunks(results)} :
       \E n \in {WritableChunks(f.encoding, chunks)} :
         /\ f' = [f EXCEPT !.pending =
                     @ \o WrittenBytes(f.encoding, linesep, chunks, n)]
         /\ raising' = (n < Len(chunks))   \* UnicodeEncodeError
  /\ pc' = "close"
  /\ UNCHANGED <<idx, results, fs, stdout, exit, tokenizer, failedAt,
                 loadCalls, encodeLog, openCalls, fs0, linesep, run, prevOutput>>

\* the end of the with block of line 34: f.close() flushes the buffer, and
\* an exception raised inside the block goes on propagating
CloseFile ==
  /\ pc = "close"
  /\ fs' = [fs EXCEPT !.bytes = @ \o f.pending]
  /\ f' = [f EXCEPT !.open = FALSE, !.pending = <<>>]
  /\ raising' = FALSE
  /\ IF raising
       THEN Abort("dump")
       ELSE pc' = "print" /\ UNCHANGED <<failedAt, exit>>
  /\ UNCHANGED <<idx, results, stdout, tokenizer, loadCalls, encodeLog,
                 openCalls, fs0, linesep, run, prevOutput>>

\* the line of line 37
CountLine(rs) ==
  <<71, 101, 110, 101, 114, 97, 116, 101, 100, 32>> \o IntStr(Len(rs))
    \o <<32, 116, 101, 115, 116, 32, 99, 97, 115, 101, 115>>

\* line 37: print(f"Generated {len(results)} test cases"), then main()
\* returns and the interpreter exits with status 0
PrintCount ==
  /\ pc = "print"
  /\ stdout' = Append(stdout, CountLine(results))
  /\ pc' = "done"
  /\ exit' = <<0>>
  /\ UNCHANGED <<raising, idx, results, fs, f, tokenizer, failedAt, loadCalls,
                 encodeLog, openCalls, fs0, linesep, run, prevOutput>>

Next ==
  \/ LoadTokenizer
  \/ TokenizeCase
  \/ OpenFile
  \/ DumpJson
  \/ CloseFile
  \/ PrintCount

Spec == Init /\ [][Next]_vars

\* the script is started a second time, after a run that completed, with the
\* same tokenizer and with the file system as the first run left it
RunAgain ==
  /\ pc = "done"
  /\ run = 1
  /\ run' = 2
  /\ prevOutput' = <<fs.bytes>>
  /\ fs0' = fs
  /\ pc' = "load"
  /\ raising' = FALSE
  /\ idx' = 1
  /\ results' = <<>>
  /\ f' = ClosedFile
  /\ stdout' = <<>>
  /\ exit' = <<>>
  /\ failedAt' = "none"
  /\ loadCalls' = 0
  /\ encodeLog' = <<>>
  /\ openCalls' = 0
  /\ UNCHANGED <<fs, linesep, tokenizer>>

NextTwice == Next \/ RunAgain

SpecTwice == Init /\ [][NextTwice]_vars


(***************************************************************************)
(* Properties.                                                             *)
(***************************************************************************)
\* whether `bytes` is the whole document of `rs`, every chunk of it written
\* through a text file of the given encoding
HoldsDocument(bytes, encoding, rs) ==
  \A chunks \in {JsonChunks(rs)} :
    /\ WritableChunks(encoding, chunks) = Len(chunks)
    /\ bytes = WrittenBytes(encoding, linesep, chunks, Len(chunks))

\* "Generated 11 test cases"
ElevenLine ==
  <<71, 101, 110, 101, 114, 97, 116, 101, 100, 32, 49, 49, 32, 116, 101, 115,
    116, 32, 99, 97, 115, 101, 115>>

\* C1: in every record appended to results, token_ids, offsets and tokens
\* have the same length.
C1_ParallelLengths ==
  \A k \in 1..Len(results) :
    /\ Len(results[k].token_ids) = Len(results[k].offsets)
    /\ Len(results[k].offsets) = Len(results[k].tokens)

\* a record with at least one token has been appended
C1_Witness ==
  \E k \in 1..Len(results) :
    /\ Len(results[k].token_ids) >= 1
    /\ Len(results[k].offsets) = Len(results[k].token_ids)
    /\ Len(results[k].tokens) = Len(results[k].token_ids)

\* C2: after a successful run the file holds exactly the document of eleven
\* records, record i carrying test_cases[i], and nothing of what the file
\* held before.
C2_FileHoldsRecords ==
  pc = "done" =>
    /\ Len(results) = 11
    /\ Len(test_cases) = 11
    /\ \A i \in 1..11 : results[i].input = test_cases[i]
    /\ fs.exists
    /\ HoldsDocument(fs.bytes, f.encoding, results)

\* a run completed over a file that held other content before
C2_Witness ==
  /\ pc = "done"
  /\ fs0.exists
  /\ fs0.bytes # <<>>
  /\ fs.bytes # fs0.bytes

\* C4: a second completed run with the same tokenizer leaves the same bytes
\* in the file as the first.
C4_Deterministic ==
  (run = 2 /\ pc = "done") => fs.bytes = prevOutput[1]

\* C5: when the tokenizer cannot be loaded the run ends there with a
\* non-zero status: nothing was tokenized, the file was neither opened nor
\* changed, nothing was printed.
C5_LoadFailureAborts ==
  (pc = "failed" /\ failedAt = "load") =>
    /\ exit # <<>>
    /\ exit[1] # 0
    /\ loadCalls = 1
    /\ encodeLog = <<>>
    /\ results = <<>>
    /\ openCalls = 0
    /\ ~f.open
    /\ fs = fs0
    /\ stdout = <<>>

\* the load failed in a run that found a file in place
C5_Witness ==
  /\ pc = "failed"
  /\ failedAt = "load"
  /\ fs0.exists

\* C6: when testdata/ does not exist the run fails with a non-zero status at
\* its one call of open: no file is created and nothing is printed.
C6_MissingDirFails ==
  ~fs0.dir =>
    /\ ~fs.dir
    /\ ~fs.exists
    /\ ~f.open
    /\ stdout = <<>>
    /\ pc # "done"
    /\ openCalls <= 1
    /\ openCalls = 1 => /\ pc = "failed"
                        /\ failedAt = "open"
                        /\ exit # <<>>
                        /\ exit[1] # 0

\* open was called with the directory missing
C6_Witness ==
  /\ ~fs0.dir
  /\ openCalls = 1
  /\ pc = "failed"
  /\ failedAt = "open"

\* C7: at most one line is printed; it is printed only once the file is
\* closed and holds the whole document, it reports 11, the number of records
\* written; a run that fails prints nothing.
C7_CountLineAfterWrite ==
  /\ Len(stdout) <= 1
  /\ pc = "done" => stdout = <<ElevenLine>>
  /\ pc = "failed" => stdout = <<>>
  /\ stdout # <<>> =>
       /\ pc = "done"
       /\ ~f.open
       /\ f.pending = <<>>
       /\ Len(results) = 11
       /\ HoldsDocument(fs.bytes, f.encoding, results)

\* the line has been printed
C7_Witness ==
  /\ pc = "done"
  /\ stdout = <<ElevenLine>>

\* C8: whatever the default text encoding, a completed run leaves the UTF-8
\* encoding of the document in the file.
C8_AlwaysUtf8 ==
  pc = "done" => HoldsDocument(fs.bytes, "utf-8", results)

(***************************************************************************)
(* C3 (the record for "" holds three empty lists) and C9 (offsets are      *)
(* non-decreasing and within the text) are about values that the tokenizer *)
(* alone produces: Record copies them.  They get no formula here.          *)
(***************************************************************************)

\* C10: the tokenizer is loaded once, the texts are encoded once each in
\* list order, and open is called only after all eleven records exist; until
\* then, and when tokenizing fails, the file is as the run found it.
C10_FileUntouchedUntilTokenized ==
  /\ loadCalls <= 1
  /\ openCalls <= 1
  /\ Len(encodeLog) <= Len(test_cases)
  /\ encodeLog = SubSeq(test_cases, 1, Len(encodeLog))
  /\ openCalls = 0 => (fs = fs0 /\ ~f.open)
  /\ openCalls = 1 => /\ loadCalls = 1
                      /\ encodeLog = test_cases
                      /\ Len(results) = 11
  /\ (pc = "failed" /\ failedAt = "tokenize") =>
       /\ fs = fs0
       /\ openCalls = 0
       /\ exit # <<>>
       /\ exit[1] # 0

\* tokenizing failed after some records, in a run that found a file in place
C10_Witness ==
  /\ pc = "failed"
  /\ failedAt = "tokenize"
  /\ Len(results) >= 1
  /\ fs0.exists

=============================================================================
